---- MODULE Spec2Model ----
\* F1RaceVision: the replay session of src/ui/replay.py (background telemetry
\* load, playback clock, index resolution, ranking) as a state machine.
\*
\* Time is held as an integer count of 1/TimeScale seconds.  Every playback
\* speed the key handlers can produce is a fraction whose denominator divides
\* TimeScale, so `current_time += dt * speed` is computed exactly.
EXTENDS Integers, Sequences, FiniteSets, TLC

\* ---------------------------------------------------------------- bounds
\* Frame times (wall-clock seconds per frame, the value of clock.tick/1000)
\* are drawn from FrameSecs * (1..MaxDt): frames are coarse, so that a session
\* of a few samples is crossed in a few frames at the lower speeds.
FrameSecs == 4
MaxDt == 1
\* The playback loop is followed for MaxFrames whole iterations and the key
\* events of the iteration after them.
MaxFrames == 1
\* SpecResolve: series of 1..MaxLen samples with timestamps of 0..MaxStamp
\* seconds, queried every half second from -1 to MaxStamp + 1.
MaxLen == 3
MaxStamp == 3
\* SpecRank: every car's second sample has a distance of 0..MaxProgress
\* (times 20 m) and a lap of 1..MaxLap.
MaxProgress == 2
MaxLap == 2
\* SpecBuild: a driver of 0..MaxLapsIn laps, each of 0..MaxRows merged rows
\* with timestamps of 0..MaxRowTime seconds.
MaxLapsIn == 2
MaxRows == 2
MaxRowTime == 1
\* SpecTelemetry: a driver of 0..MaxLapRows laps numbered within 1..MaxLapNo
\* and NSamples position samples, one a second.
MaxLapRows == 2
MaxLapNo == 3
NSamples == 22

\* ------------------------------------------------------- program constants
SEEK_STEP == 5          \* current_time +/- 5 (seconds)
FLOOR_SPEED == 10       \* max(10, ahead["speed"] / 3.6)
OUT_MIN_INDEX == 10     \* if i > 10
OUT_WINDOW == 20        \* pos_data.iloc[max(0, i - 20):i]
OUT_SPREAD == 1         \* recent.max() - recent.min() < 1

TimeScale == (2 ^ 10) * (3 ^ 8)
Sec(n) == n * TimeScale

\* Python's None and a present value.
None == [none |-> TRUE]
Some(v) == [none |-> FALSE, val |-> v]

Min(a, b) == IF a <= b THEN a ELSE b
Max(a, b) == IF a >= b THEN a ELSE b

RECURSIVE Gcd(_, _)
Gcd(a, b) == IF b = 0 THEN a ELSE Gcd(b, a % b)

\* A playback speed is a fraction <<n, d>> in lowest terms.
Frac(n, d) == LET g == Gcd(n, d) IN <<n \div g, d \div g>>
FracLess(p, q) == p[1] * q[2] < q[1] * p[2]
FracMin(p, q) == IF FracLess(q, p) THEN q ELSE p
FracMax(p, q) == IF FracLess(p, q) THEN q ELSE p
FracMul(p, q) == Frac(p[1] * q[1], p[2] * q[2])
FracDiv(p, q) == Frac(p[1] * q[2], p[2] * q[1])

SPEED_INIT == <<1, 1>>     \* speed = 1.0
SPEED_MAX == <<8, 1>>      \* min(8, ...)
SPEED_MIN == <<1, 4>>      \* max(0.25, ...)
SPEED_FACTOR == <<3, 2>>   \* speed * 1.5, speed / 1.5

\* ------------------------------------------------------------ the session
\* session.drivers, in the order pool.map yields their results.
Drivers == <<"VER", "HAM", "ALO">>

\* The fields of the trace object that the replay reads (times, distances,
\* lap_numbers, speeds as process_driver passes them; the DriverTrace
\* dataclass of core/telemetry_loader.py declares no `distances` field, the
\* construction of lines 262-274 is taken to yield an object with the fields
\* it is given).  times are seconds (held in 1/TimeScale s).
Timed(code, ts, ds, ls, vs) ==
    [code |-> code,
     times |-> [i \in 1..Len(ts) |-> Sec(ts[i])],
     distances |-> ds, lap_numbers |-> ls, speeds |-> vs]

\* ------------------------------------------------ process_driver: the build
\* What the provider holds for one driver is the sequence of the driver's laps
\* in lap order.  A lap is [LapNumber, tel]: tel is None when the lap's car or
\* position data is empty, else the rows of merge_asof(car, pos) in
\* SessionTime order.  A row is [SessionTime, pos, Speed]: pos is the (X, Y)
\* of the position sample within the 100 ms tolerance, None when there is
\* none (X and Y are then both missing).
Row(t, x, v) == [SessionTime |-> t, pos |-> Some(<<x, 0>>), Speed |-> v]
Lap(n, rows) == [LapNumber |-> n, tel |-> Some(rows)]

HasXY(r) == r.pos # None

\* tel.dropna(subset=["X", "Y"]); tel["LapNumber"] = lap["LapNumber"]
LapFrame(lap) ==
    LET kept == SelectSeq(lap.tel.val, HasXY)
    IN [i \in 1..Len(kept) |->
            [SessionTime |-> kept[i].SessionTime, pos |-> kept[i].pos,
             Speed |-> kept[i].Speed, LapNumber |-> lap.LapNumber]]

\* The loop over laps.iterlaps(): one frame per lap that has car and position
\* data, whatever is left of its rows.
RECURSIVE merged_all(_)
merged_all(laps) ==
    IF laps = <<>> THEN <<>>
    ELSE LET rest == merged_all(SubSeq(laps, 1, Len(laps) - 1))
             lap == laps[Len(laps)]
         IN IF lap.tel = None THEN rest ELSE Append(rest, LapFrame(lap))

\* pandas.concat(merged_all, ignore_index=True)
RECURSIVE Concat(_)
Concat(frames) ==
    IF frames = <<>> THEN <<>>
    ELSE Concat(SubSeq(frames, 1, Len(frames) - 1)) \o frames[Len(frames)]

\* sort_values("SessionTime"): ascending; rows of equal SessionTime are all
\* kept (here in their order of arrival).
InsertByTime(s, x) ==
    LET k == Cardinality({i \in 1..Len(s) : s[i].SessionTime <= x.SessionTime})
    IN SubSeq(s, 1, k) \o <<x>> \o SubSeq(s, k + 1, Len(s))

RECURSIVE sort_values(_)
sort_values(s) ==
    IF s = <<>> THEN <<>>
    ELSE InsertByTime(sort_values(SubSeq(s, 1, Len(s) - 1)), s[Len(s)])

\* math.dist of two positions; every position of the batches has Y = 0.
Dist(p, q) == IF q[1] >= p[1] THEN q[1] - p[1] ELSE p[1] - q[1]

\* distances = [0.0]; for i in range(1, len(tel)): distances.append(distances[-1] + d)
RECURSIVE Distances(_, _)
Distances(tel, n) ==
    IF n <= 1 THEN <<0>>
    ELSE LET d == Distances(tel, n - 1)
         IN Append(d, d[n - 1] + Dist(tel[n - 1].pos.val, tel[n].pos.val))

\* process_driver(session, driver_number): None for the triple of None
\* (laps.empty, merged_all empty, or an exception anywhere in the try block),
\* else the trace.
process_driver(code, laps, raises) ==
    IF raises \/ laps = <<>> \/ merged_all(laps) = <<>> THEN None
    ELSE LET tel == sort_values(Concat(merged_all(laps)))
         IN Some(Timed(code,
                       [i \in 1..Len(tel) |-> tel[i].SessionTime],
                       Distances(tel, Len(tel)),
                       [i \in 1..Len(tel) |-> tel[i].LapNumber],
                       [i \in 1..Len(tel) |-> tel[i].Speed]))

\* The laps of the session's drivers (session.laps.pick_drivers), with the
\* telemetry of a complete download.
SessionLaps(d) ==
    CASE d = "VER" -> <<Lap(1, <<Row(0, 0, 0), Row(2, 100, 200), Row(2, 100, 200)>>),
                        Lap(2, <<Row(5, 300, 180)>>),
                        Lap(3, <<Row(8, 500, 90)>>)>>
      [] d = "HAM" -> <<Lap(1, <<Row(1, 0, 0)>>),
                        Lap(2, <<Row(4, 150, 30), Row(7, 320, 210)>>)>>
      [] d = "ALO" -> <<[LapNumber |-> 1, tel |-> None],
                        Lap(2, <<Row(2, 0, 0)>>),
                        Lap(3, <<Row(6, 330, 150)>>)>>

\* The same laps with no position sample within the tolerance of any car
\* sample (every merged row lacks X and Y), and with no car or position data
\* at all.
Unmatched(laps) ==
    [i \in 1..Len(laps) |->
        IF laps[i].tel = None THEN laps[i]
        ELSE [laps[i] EXCEPT !.tel =
                Some([k \in 1..Len(laps[i].tel.val) |->
                        [laps[i].tel.val[k] EXCEPT !.pos = None]])]]
NoTelemetry(laps) == [i \in 1..Len(laps) |-> [laps[i] EXCEPT !.tel = None]]

\* What the provider can deliver for a driver of the session.
ProviderLaps(d) == {SessionLaps(d), Unmatched(SessionLaps(d)), NoTelemetry(SessionLaps(d))}

\* What process_driver builds for a driver from the complete download.
BuiltTrace(d) == process_driver(d, SessionLaps(d), FALSE).val

\* The smallest LapNumber of the table in place of the greatest.
SessionLapsMax_min ==
    LET nums == UNION {{SessionLaps(Drivers[i])[k].LapNumber :
                            k \in 1..Len(SessionLaps(Drivers[i]))} :
                       i \in 1..Len(Drivers)}
    IN CHOOSE x \in nums : \A y \in nums : x <= y

\* int(session.laps["LapNumber"].max()): the laps table covers every lap of
\* every driver of the session, whether or not a trace is built from it.
SessionLapsMax ==
    LET nums == UNION {{SessionLaps(Drivers[i])[k].LapNumber :
                            k \in 1..Len(SessionLaps(Drivers[i]))} :
                       i \in 1..Len(Drivers)}
    IN CHOOSE x \in nums : \A y \in nums : x >= y

VARIABLES
    lpc,            \* loader thread: "start", "collect", "publish", "colors", "done"
    lnext,          \* loader: index into Drivers of the next pool.map result
    ltraces,        \* loader's local dict `traces`, in insertion order
    data,           \* the shared dict: traces (None or a dict), colors, total_laps
    pc,             \* foreground: "wait", "returned", "failed", "crashed", "events", "error", "done"
    traces,         \* foreground's `traces` (None until read from data)
    min_time, max_time,
    indices,        \* code -> 0-based index into that trace
    current_time, speed, paused,
    selected,
    running,
    ranking,        \* the ranking the last frame drew
    frame,          \* the iteration of `while running` in progress (from 1)
    drv_laps,       \* a build under study: the driver's laps (`laps`)
    drv_pos,        \* load_race_telemetry: the driver's `pos_data`
    built           \* the build's result (None until it has returned)

vars == <<lpc, lnext, ltraces, data, pc, traces, min_time, max_time, indices,
          current_time, speed, paused, selected, running, ranking, frame,
          drv_laps, drv_pos, built>>

loaderVars == <<lpc, lnext, ltraces, data>>
playVars == <<min_time, max_time, indices, current_time, speed, paused,
              selected, running, ranking, frame>>
buildVars == <<drv_laps, drv_pos, built>>

\* ------------------------------------------------------- index resolution
\* bisect.bisect_right(a, x): the loop of the standard library, on 0-based
\* positions lo..hi (a[mid] of the code is a[mid + 1] here).
\* bisect_left in place of bisect_right.
RECURSIVE BisectLoopLeft(_, _, _, _)
BisectLoopLeft(a, x, lo, hi) ==
    IF lo < hi
    THEN LET mid == (lo + hi) \div 2
         IN IF x <= a[mid + 1]
            THEN BisectLoopLeft(a, x, lo, mid)
            ELSE BisectLoopLeft(a, x, mid + 1, hi)
    ELSE lo

bisect_left(a, x) == BisectLoopLeft(a, x, 0, Len(a))

RECURSIVE BisectLoop(_, _, _, _)
BisectLoop(a, x, lo, hi) ==
    IF lo < hi
    THEN LET mid == (lo + hi) \div 2
         IN IF x < a[mid + 1]
            THEN BisectLoop(a, x, lo, mid)
            ELSE BisectLoop(a, x, mid + 1, hi)
    ELSE lo

bisect_right(a, x) == BisectLoop(a, x, 0, Len(a))

\* The insertion point itself, without the step back to the sample before it.
Resolve_offByOne(times, t) == Min(Len(times) - 1, BisectLoop(times, t, 0, Len(times)))

\* idx = bisect.bisect_right(tr.times, current_time); max(0, idx - 1)
Resolve(times, t) == Max(0, bisect_right(times, t) - 1)

Codes(trs) == {trs[i].code : i \in 1..Len(trs)}
TraceOf(trs, c) == trs[CHOOSE i \in 1..Len(trs) : trs[i].code = c]

\* for code, tr in traces.items(): indices[code] = max(0, idx - 1)
ResolveAll(trs, t) == [c \in Codes(trs) |-> Resolve(TraceOf(trs, c).times, t)]

\* ----------------------------------------------------------------- ranking
\* "+{tgap:.2f}": n/d rounded to the nearest integer, ties to even.
RoundHalfEven(n, d) ==
    LET q == n \div d
        r == n % d
    IN IF 2 * r < d THEN q
       ELSE IF 2 * r > d THEN q + 1
       ELSE IF q % 2 = 0 THEN q ELSE q + 1

\* The range test one too strict: a trace at its last sample is skipped.
RankEntries_skipsLast(trs, idx) ==
    LET keep == SelectSeq(trs, LAMBDA tr : idx[tr.code] < Len(tr.distances) - 1)
    IN [i \in 1..Len(keep) |->
            [code |-> keep[i].code,
             progress |-> keep[i].distances[idx[keep[i].code] + 1],
             lap |-> keep[i].lap_numbers[idx[keep[i].code] + 1],
             speed |-> keep[i].speeds[idx[keep[i].code] + 1]]]

\* The entries the first loop of compute_ranking_data appends, in the
\* iteration order of the dict; a trace whose index is out of range is skipped.
RankEntries(trs, idx) ==
    LET keep == SelectSeq(trs, LAMBDA tr : idx[tr.code] < Len(tr.distances))
    IN [i \in 1..Len(keep) |->
            [code |-> keep[i].code,
             progress |-> keep[i].distances[idx[keep[i].code] + 1],
             lap |-> keep[i].lap_numbers[idx[keep[i].code] + 1],
             speed |-> keep[i].speeds[idx[keep[i].code] + 1]]]

\* A sort on the pair (lap, progress).
SortKeyGeq_lapFirst(a, b) ==
    a.lap > b.lap \/ (a.lap = b.lap /\ a.progress >= b.progress)

\* The key of ranking.sort(key=lambda x: x["progress"], reverse=True).
SortKeyGeq(a, b) == a.progress >= b.progress

\* An unstable sort: an entry goes before the entries of equal key.
InsertSorted_unstable(s, x) ==
    LET k == Cardinality({i \in 1..Len(s) : s[i].progress > x.progress})
    IN SubSeq(s, 1, k) \o <<x>> \o SubSeq(s, k + 1, Len(s))

\* list.sort is stable, also under reverse=True: an entry goes after every
\* entry whose key is at least its own.
InsertSorted(s, x) ==
    LET k == Cardinality({i \in 1..Len(s) : SortKeyGeq(s[i], x)})
    IN SubSeq(s, 1, k) \o <<x>> \o SubSeq(s, k + 1, Len(s))

\* (`rest \in {...}` binds the sorted prefix as a value, computed once.)
RECURSIVE SortDescending(_)
SortDescending(s) ==
    IF s = <<>> THEN <<>>
    ELSE CHOOSE r \in {InsertSorted(rest, s[Len(s)]) :
                          rest \in {SortDescending(SubSeq(s, 1, Len(s) - 1))}} : TRUE

\* speed_mps = max(10, ahead["speed"] / 3.6), as the fraction <<n, d>>
\* (speed / 3.6 = 5 * speed / 18).
SpeedMps(ahead) ==
    IF 5 * ahead.speed > 18 * FLOOR_SPEED THEN <<5 * ahead.speed, 18>>
    ELSE <<FLOOR_SPEED, 1>>

\* The gap estimated from the car's own speed.
GapToAhead_ownSpeed(ahead, cur) ==
    LET dgap == ahead.progress - cur.progress
        mps == SpeedMps(cur)
    IN RoundHalfEven(100 * dgap * mps[2], mps[1])

\* tgap = dgap / speed_mps, shown as "+{tgap:.2f}": the gap in hundredths
\* of a second.
GapToAhead(ahead, cur) ==
    LET dgap == ahead.progress - cur.progress
        mps == SpeedMps(ahead)
    IN RoundHalfEven(100 * dgap * mps[2], mps[1])

\* (The sorted list is bound as a value, `sorted \in {...}`, so that it is
\* computed once however the operator is evaluated.)
compute_ranking_data(trs, idx) ==
    CHOOSE out \in
        {[i \in 1..Len(sorted) |->
            [position |-> i,
             code |-> sorted[i].code,
             gap_to_ahead |-> IF i = 1 THEN ""
                              ELSE GapToAhead(sorted[i - 1], sorted[i])]] :
         sorted \in {SortDescending(entries) : entries \in {RankEntries(trs, idx)}}} : TRUE

RankCodes(rank) == [i \in 1..Len(rank) |-> rank[i].code]
IndexOf(arr, c) == CHOOSE i \in 1..Len(arr) : arr[i] = c /\ \A j \in 1..(i - 1) : arr[j] # c

SetMin(S) == CHOOSE x \in S : \A y \in S : x <= y
SetMax(S) == CHOOSE x \in S : \A y \in S : x >= y

\* ------------------------------------------------------------------- Init
\* run_replay up to th.start(): data is the fresh dict, the loader has not
\* run, the foreground's playback locals are not yet assigned.
Init ==
    /\ lpc = "start"
    /\ lnext = 1
    /\ ltraces = <<>>
    /\ data = [traces |-> None, colors |-> <<>>, total_laps |-> 0]
    /\ pc = "wait"
    /\ traces = None
    /\ min_time = 0
    /\ max_time = 0
    /\ indices = <<>>
    /\ current_time = 0
    /\ speed = SPEED_INIT
    /\ paused = FALSE
    /\ selected = ""
    /\ running = TRUE
    /\ ranking = <<>>
    /\ frame = 0
    /\ drv_laps = <<>>
    /\ drv_pos = <<>>
    /\ built = None

\* ------------------------------------------------------ the loader thread
\* session.load and data["total_laps"] = ...; an exception anywhere in the
\* try block ends the thread with data["traces"] still None.
LoaderLoad ==
    /\ lpc = "start"
    /\ \/ /\ data' = [data EXCEPT !.total_laps = SessionLapsMax]
          /\ lpc' = "collect"
       \/ /\ lpc' = "done"
          /\ UNCHANGED data
    /\ UNCHANGED <<lnext, ltraces, pc, traces>>
    /\ UNCHANGED <<playVars, buildVars>>

\* One result of pool.map: process_driver returned a trace, or the triple of
\* None; `if code and tr: traces[code] = tr` (a trace object is truthy
\* whatever it holds).
LoaderCollect ==
    /\ lpc = "collect"
    /\ lnext <= Len(Drivers)
    /\ \E laps \in ProviderLaps(Drivers[lnext]), raises \in BOOLEAN :
          LET res == process_driver(Drivers[lnext], laps, raises)
          IN ltraces' = IF res # None THEN Append(ltraces, res.val) ELSE ltraces
    /\ lnext' = lnext + 1
    /\ UNCHANGED <<lpc, data, pc, traces>>
    /\ UNCHANGED <<playVars, buildVars>>

\* data["traces"] = traces
LoaderPublishTraces ==
    /\ lpc = "collect"
    /\ lnext > Len(Drivers)
    /\ data' = [data EXCEPT !.traces = Some(ltraces)]
    /\ lpc' = "colors"
    /\ UNCHANGED <<lnext, ltraces, pc, traces>>
    /\ UNCHANGED <<playVars, buildVars>>

\* data["colors"] = colors, after which the thread function returns.
LoaderPublishColors ==
    /\ lpc = "colors"
    /\ data' = [data EXCEPT !.colors = RankCodes(ltraces)]
    /\ lpc' = "done"
    /\ UNCHANGED <<lnext, ltraces, pc, traces>>
    /\ UNCHANGED <<playVars, buildVars>>

\* ------------------------------------------------- foreground: the waiting
\* Waiting for data["traces"] instead of for the thread.
ThreadAlive_untilTraces == data.traces = None /\ lpc # "done"

\* th.is_alive()
ThreadAlive == lpc # "done"

\* A QUIT event while the loader is alive: pygame.quit(); return
WaitQuit ==
    /\ pc = "wait"
    /\ ThreadAlive
    /\ pc' = "returned"
    /\ UNCHANGED <<traces>>
    /\ UNCHANGED <<loaderVars, buildVars>>
    /\ UNCHANGED playVars

\* `not traces`
Falsy(t) == t = None \/ t.val = <<>>

\* What the set-up of lines 457-468 raises: min() of an empty sequence when
\* no trace has a timestamp (ValueError), tr.lap_numbers[idx] or tr.speeds[idx]
\* in compute_ranking_data when a trace is shorter than its distances
\* (IndexError).  Nothing catches either.
SetupRaises(trs, idx) ==
    \/ \A i \in 1..Len(trs) : trs[i].times = <<>>
    \/ \E i \in 1..Len(trs) :
          /\ idx[trs[i].code] < Len(trs[i].distances)
          /\ \/ idx[trs[i].code] >= Len(trs[i].lap_numbers)
             \/ idx[trs[i].code] >= Len(trs[i].speeds)

\* The loader is dead: traces = data["traces"]; with nothing loaded the
\* function shows the failure and returns, else it sets the playback up.
StartPlayback ==
    /\ pc = "wait"
    /\ ~ThreadAlive
    /\ traces' = data.traces
    /\ IF Falsy(data.traces)
       THEN /\ pc' = "failed"
            /\ UNCHANGED playVars
       ELSE IF SetupRaises(data.traces.val, [c \in Codes(data.traces.val) |-> 0])
       THEN /\ pc' = "crashed"
            /\ UNCHANGED playVars
       ELSE LET trs == data.traces.val
                idx == [c \in Codes(trs) |-> 0]
                order == compute_ranking_data(trs, idx)
            IN /\ pc' = "events"
               /\ min_time' = SetMin({trs[i].times[1] :
                                        i \in {j \in 1..Len(trs) : trs[j].times # <<>>}})
               /\ max_time' = SetMax({trs[i].times[Len(trs[i].times)] :
                                        i \in {j \in 1..Len(trs) : trs[j].times # <<>>}})
               /\ indices' = idx
               /\ current_time' = min_time'
               /\ speed' = SPEED_INIT
               /\ paused' = FALSE
               /\ selected' = IF order # <<>> THEN order[1].code ELSE trs[1].code
               /\ frame' = 1
               /\ UNCHANGED <<running, ranking>>
    /\ UNCHANGED <<loaderVars, buildVars>>

\* ------------------------------------------- foreground: the playback loop
\* Each key handler is one KEYDOWN event of `for ev in pygame.event.get()`.
Handling == pc = "events"

keep(unchanged) ==
    /\ unchanged
    /\ UNCHANGED <<pc, traces, min_time, max_time, indices, running, ranking, frame>>
    /\ UNCHANGED <<loaderVars, buildVars>>

\* K_SPACE: paused = not paused
KeySpace ==
    /\ Handling
    /\ paused' = ~paused
    /\ keep(UNCHANGED <<current_time, speed, selected>>)

\* speed * 1.5 without the upper clamp.
SpeedUp_unclamped(sp) == FracMul(sp, SPEED_FACTOR)

\* min(8, speed * 1.5)
SpeedUp(sp) == FracMin(SPEED_MAX, FracMul(sp, SPEED_FACTOR))
\* max(0.25, speed / 1.5)
SpeedDown(sp) == FracMax(SPEED_MIN, FracDiv(sp, SPEED_FACTOR))

\* K_UP
KeyUp ==
    /\ Handling
    /\ speed' = SpeedUp(speed)
    /\ keep(UNCHANGED <<current_time, paused, selected>>)

\* K_DOWN
KeyDown ==
    /\ Handling
    /\ speed' = SpeedDown(speed)
    /\ keep(UNCHANGED <<current_time, paused, selected>>)

\* current_time + 5 without the clamp.
SeekForward_unclamped(t, hi) == t + Sec(SEEK_STEP)

\* min(max_time, current_time + 5)
SeekForward(t, hi) == Min(hi, t + Sec(SEEK_STEP))
\* max(min_time, current_time - 5)
SeekBack(t, lo) == Max(lo, t - Sec(SEEK_STEP))

\* K_RIGHT
KeyRight ==
    /\ Handling
    /\ current_time' = SeekForward(current_time, max_time)
    /\ keep(UNCHANGED <<speed, paused, selected>>)

\* K_LEFT
KeyLeft ==
    /\ Handling
    /\ current_time' = SeekBack(current_time, min_time)
    /\ keep(UNCHANGED <<speed, paused, selected>>)

\* The step without the wrap-around: it stops at either end of the ranking.
Reselect_noWrap(sel, step) ==
    LET arr == RankCodes(compute_ranking_data(traces.val, indices))
    IN IF \E i \in 1..Len(arr) : arr[i] = sel
       THEN arr[Max(1, Min(Len(arr), IndexOf(arr, sel) + step))]
       ELSE sel

\* rank = compute_ranking_data(traces, indices); arr = [d["code"] for d in rank];
\* if selected in arr: selected = arr[(i + step) % len(arr)]
Reselect(sel, step) ==
    LET arr == RankCodes(compute_ranking_data(traces.val, indices))
    IN IF \E i \in 1..Len(arr) : arr[i] = sel
       THEN arr[((IndexOf(arr, sel) - 1 + step) % Len(arr)) + 1]
       ELSE sel

\* K_LEFTBRACKET
KeyLeftBracket ==
    /\ Handling
    /\ selected' = Reselect(selected, -1)
    /\ keep(UNCHANGED <<current_time, speed, paused>>)

\* K_RIGHTBRACKET
KeyRightBracket ==
    /\ Handling
    /\ selected' = Reselect(selected, 1)
    /\ keep(UNCHANGED <<current_time, speed, paused>>)

\* pygame.QUIT: running = False (the rest of the frame still runs)
Quit ==
    /\ Handling
    /\ running
    /\ running' = FALSE
    /\ UNCHANGED <<pc, traces, min_time, max_time, indices, ranking,
                   current_time, speed, paused, selected, frame>>
    /\ UNCHANGED <<loaderVars, buildVars>>

FrameTimes == {FrameSecs * k : k \in 1..MaxDt}

\* dt * speed for a frame of dt seconds (exact: the denominator of every
\* reachable speed divides TimeScale).
Elapsed(dt, sp) == (TimeScale \div sp[2]) * sp[1] * dt

\* The advance without the clamp to max_time.
AdvanceClock_unclamped(t, dt, sp, isPaused, hi) ==
    IF isPaused THEN [current_time |-> t, paused |-> isPaused]
    ELSE [current_time |-> t + Elapsed(dt, sp),
          paused |-> (t + Elapsed(dt, sp) >= hi)]

\* The advance that clamps but does not stop at the end.
AdvanceClock_noStop(t, dt, sp, isPaused, hi) ==
    IF isPaused THEN [current_time |-> t, paused |-> isPaused]
    ELSE [current_time |-> Min(hi, t + Elapsed(dt, sp)), paused |-> isPaused]

\* if not paused: current_time += dt * speed;
\*                 if current_time >= max_time: current_time = max_time; paused = True
AdvanceClock(t, dt, sp, isPaused, hi) ==
    IF isPaused THEN [current_time |-> t, paused |-> isPaused]
    ELSE IF t + Elapsed(dt, sp) >= hi
         THEN [current_time |-> hi, paused |-> TRUE]
         ELSE [current_time |-> t + Elapsed(dt, sp), paused |-> isPaused]

\* The rest of a frame that took dt seconds, after its events: the clock
\* advances, every index is resolved again, the frame is drawn from
\* traces[selected] and indices[selected] (a KeyError ends the program), and
\* `while running` is tested.
FrameBody ==
    /\ Handling
    /\ \E dt \in FrameTimes :
          LET adv == AdvanceClock(current_time, dt, speed, paused, max_time)
          IN /\ current_time' = adv.current_time
             /\ paused' = adv.paused
    /\ indices' = ResolveAll(traces.val, current_time')
    /\ ranking' = compute_ranking_data(traces.val, indices')
    /\ pc' = IF selected \notin Codes(traces.val) THEN "error"
             ELSE IF running THEN "events" ELSE "done"
    /\ UNCHANGED <<traces, min_time, max_time, speed, selected, running>>
    /\ UNCHANGED <<loaderVars, buildVars>>

\* The frames that are followed: the first MaxFrames of the loop.
Frame ==
    /\ frame <= MaxFrames
    /\ FrameBody
    /\ frame' = frame + 1

Next ==
    \/ LoaderLoad
    \/ LoaderCollect
    \/ LoaderPublishTraces
    \/ LoaderPublishColors
    \/ WaitQuit
    \/ StartPlayback
    \/ KeySpace
    \/ KeyUp
    \/ KeyDown
    \/ KeyRight
    \/ KeyLeft
    \/ KeyLeftBracket
    \/ KeyRightBracket
    \/ Quit
    \/ Frame

Spec == Init /\ [][Next]_vars

\* The value every variable has in a specification that does not use it.
Idle ==
    /\ lpc = "done"
    /\ lnext = 1
    /\ ltraces = <<>>
    /\ data = [traces |-> None, colors |-> <<>>, total_laps |-> 0]
    /\ min_time = 0
    /\ max_time = 0
    /\ speed = SPEED_INIT
    /\ paused = FALSE
    /\ selected = ""
    /\ running = TRUE
    /\ ranking = <<>>
    /\ frame = 0

\* No build is under study.
BuildIdle ==
    /\ drv_laps = <<>>
    /\ drv_pos = <<>>
    /\ built = None

\* ------------------------------------------------ SpecResolve: resolution
\* Index resolution (the loop of lines 518-520) applied to one series.  The
\* series are the non-decreasing timestamp lists process_driver's
\* sort_values can leave (nothing removes equal timestamps); the query times
\* start before the first sample and end after the last.
SortedStamps ==
    UNION {{ts \in [1..n -> 0..MaxStamp] : \A i \in 1..(n - 1) : ts[i] <= ts[i + 1]} :
           n \in 1..MaxLen}

QueryTimes == {Sec(k) \div 2 : k \in (-2)..(2 * MaxStamp + 2)}

Zeros(n) == [i \in 1..n |-> 0]

InitResolve ==
    /\ Idle
    /\ BuildIdle
    /\ pc = "resolve"
    /\ \E ts \in SortedStamps :
          traces = Some(<<Timed("VER", ts, Zeros(Len(ts)), Zeros(Len(ts)), Zeros(Len(ts)))>>)
    /\ current_time \in QueryTimes
    /\ indices = [c \in {"VER"} |-> 0]

ResolveCall ==
    /\ pc = "resolve"
    /\ indices' = ResolveAll(traces.val, current_time)
    /\ pc' = "resolved"
    /\ UNCHANGED <<traces, min_time, max_time, current_time, speed, paused,
                   selected, running, ranking, frame>>
    /\ UNCHANGED <<loaderVars, buildVars>>

NextResolve == ResolveCall

SpecResolve == InitResolve /\ [][NextResolve]_vars

\* ------------------------------------------------------ SpecRank: ranking
\* compute_ranking_data applied to sessions of one to three cars, inserted
\* into the dict in every order.  A built trace starts at distance 0.0; its
\* second sample is drawn, and each car is resolved to either sample.
CodeOrders ==
    {o \in UNION {[1..n -> Codes([i \in 1..Len(Drivers) |-> [code |-> Drivers[i]]])] :
                  n \in 1..Len(Drivers)} :
        \A i, j \in 1..Len(o) : i # j => o[i] # o[j]}

RankSpeeds == {30, 200}

SecondSamples ==
    [distance : {20 * k : k \in 0..MaxProgress}, lap : 1..MaxLap, speed : RankSpeeds]

RankTrace(code, smp) ==
    Timed(code, <<0, 1>>, <<0, smp.distance>>, <<1, smp.lap>>, <<0, smp.speed>>)

InitRank ==
    /\ Idle
    /\ BuildIdle
    /\ pc = "rank"
    /\ current_time = 0
    /\ \E o \in CodeOrders :
          /\ \E smp \in [1..Len(o) -> SecondSamples] :
                traces = Some([i \in 1..Len(o) |-> RankTrace(o[i], smp[i])])
          /\ indices \in [{o[i] : i \in 1..Len(o)} -> {0, 1}]

RankCall ==
    /\ pc = "rank"
    /\ ranking' = compute_ranking_data(traces.val, indices)
    /\ pc' = "ranked"
    /\ UNCHANGED <<traces, min_time, max_time, indices, current_time, speed,
                   paused, selected, running, frame>>
    /\ UNCHANGED <<loaderVars, buildVars>>

NextRank == RankCall

SpecRank == InitRank /\ [][NextRank]_vars

\* ------------------------------------------- SpecPlay: the running clock
\* The playback loop from any playing state of the complete session, with
\* frames without end and every key but K_SPACE (pause), K_LEFT (backward
\* seek) and QUIT.  clock.tick(FPS) returns in every iteration of the loop,
\* so the frame is taken again and again: WF_vars(Tick).

\* The speeds K_UP and K_DOWN reach from 1.0.
RECURSIVE SpeedClosure(_)
SpeedClosure(S) ==
    LET T == S \cup {SpeedUp(sp) : sp \in S} \cup {SpeedDown(sp) : sp \in S}
    IN IF T = S THEN S ELSE SpeedClosure(T)
ReachableSpeeds == SpeedClosure({SPEED_INIT})

CompleteSession == [i \in 1..Len(Drivers) |-> BuiltTrace(Drivers[i])]

InitPlay ==
    /\ lpc = "done"
    /\ lnext = Len(Drivers) + 1
    /\ ltraces = CompleteSession
    /\ data = [traces |-> Some(CompleteSession), colors |-> RankCodes(CompleteSession),
               total_laps |-> SessionLapsMax]
    /\ pc = "events"
    /\ traces = Some(CompleteSession)
    /\ min_time = SetMin({CompleteSession[i].times[1] : i \in 1..Len(CompleteSession)})
    /\ max_time = SetMax({CompleteSession[i].times[Len(CompleteSession[i].times)] :
                            i \in 1..Len(CompleteSession)})
    /\ current_time \in {t \in {Sec(k) : k \in 0..(2 * SEEK_STEP)} :
                            min_time <= t /\ t <= max_time}
    /\ indices = ResolveAll(CompleteSession, current_time)
    /\ speed \in ReachableSpeeds
    /\ paused = FALSE
    /\ selected = CompleteSession[1].code
    /\ running = TRUE
    /\ ranking = compute_ranking_data(CompleteSession, indices)
    /\ frame = 1
    /\ BuildIdle

\* One iteration of `while running` after its events.
Tick ==
    /\ FrameBody
    /\ UNCHANGED frame

NextPlay ==
    \/ KeyUp
    \/ KeyDown
    \/ KeyRight
    \/ KeyLeftBracket
    \/ KeyRightBracket
    \/ Tick

SpecPlay == InitPlay /\ [][NextPlay]_vars /\ WF_vars(Tick)

\* ------------------------------------------------ SpecBuild: process_driver
\* process_driver applied to every bounded batch of one driver: each lap has
\* no car or position data, or merged rows in SessionTime order, each row
\* with or without a matched position.
RowXs == {0, 30}
BatchRows ==
    [SessionTime : 0..MaxRowTime, pos : {None} \cup {Some(<<x, 0>>) : x \in RowXs},
     Speed : {100}]
BatchTels ==
    {None} \cup
    {Some(rows) : rows \in
        UNION {{r \in [1..n -> BatchRows] :
                    \A i \in 1..(n - 1) : r[i].SessionTime <= r[i + 1].SessionTime} :
               n \in 0..MaxRows}}
BatchLaps ==
    UNION {{[i \in 1..n |-> [LapNumber |-> i, tel |-> tels[i]]] :
                tels \in [1..n -> BatchTels]} :
           n \in 0..MaxLapsIn}

InitBuild ==
    /\ Idle
    /\ pc = "build"
    /\ traces = None
    /\ indices = <<>>
    /\ current_time = 0
    /\ drv_laps \in BatchLaps
    /\ drv_pos = <<>>
    /\ built = None

BuildCall ==
    /\ pc = "build"
    /\ \E raises \in BOOLEAN : built' = process_driver("VER", drv_laps, raises)
    /\ pc' = "built"
    /\ UNCHANGED <<traces, drv_laps, drv_pos>>
    /\ UNCHANGED <<loaderVars, playVars>>

NextBuild == BuildCall

SpecBuild == InitBuild /\ [][NextBuild]_vars

\* ----------------------------------- SpecTelemetry: load_race_telemetry
\* core/telemetry_loader.py, the body of the loop over session.drivers for
\* one driver.  laps is the driver's lap table in lap order, a row being
\* [LapNumber, LapStartTime, Compound, Sectors, Pit] (Pit: PitOutTime or
\* PitInTime is set); pos is the driver's position data, a row being
\* [SessionTime, X].

\* laps[laps["LapStartTime"] <= t_sample]: the places of the rows kept.
LapMatch(laps, t) == {j \in 1..Len(laps) : laps[j].LapStartTime <= t}

\* for j in range(len(lap_start_times)): if lap_start_times[j] <= t_sample:
\* lap_index = j, else: break
RECURSIVE TyreScan(_, _, _, _)
TyreScan(laps, t, j, lap_index) ==
    IF j > Len(laps) THEN lap_index
    ELSE IF laps[j].LapStartTime <= t THEN TyreScan(laps, t, j + 1, Some(j))
    ELSE lap_index

TyreAt(laps, t) ==
    LET lap_index == TyreScan(laps, t, 1, None)
    IN IF lap_index = None THEN "UNK" ELSE laps[lap_index.val].Compound

\* lap_match.iloc[-1] of lines 98-117
LapNumberAt(laps, t) ==
    IF LapMatch(laps, t) = {} THEN 0 ELSE laps[SetMax(LapMatch(laps, t))].LapNumber
SectorsAt(laps, t) ==
    IF LapMatch(laps, t) = {} THEN <<0, 0, 0>> ELSE laps[SetMax(LapMatch(laps, t))].Sectors

\* recent.max() - recent.min() for recent = pos_data.iloc[lo:i]["X"]
\* (0-based lo..i-1, the rows lo+1..i here).
Spread(pos, lo, i) ==
    LET xs == {pos[k].X : k \in (lo + 1)..i}
    IN SetMax(xs) - SetMin(xs)

\* The body of the pit-status loop for the sample of 0-based index i: the
\* status appended, or None when lap_pit_flags.iloc[lap_num - 1] is out of
\* range (IndexError).
PitStatusAt(laps, pos, i) ==
    LET t_sample == pos[i + 1].SessionTime
    IN IF LapMatch(laps, t_sample) = {} THEN Some("")
       ELSE IF i > OUT_MIN_INDEX /\ Spread(pos, Max(0, i - OUT_WINDOW), i) < OUT_SPREAD
       THEN Some("OUT")
       ELSE LET lap_num == laps[SetMax(LapMatch(laps, t_sample))].LapNumber
            IN IF lap_num > Len(laps) THEN None
               ELSE IF laps[lap_num].Pit THEN Some("PIT") ELSE Some("")

\* An exception that leaves load_race_telemetry (nothing in it catches).
Raised(e) == [none |-> TRUE, error |-> e]

\* The trace load_race_telemetry stores for the driver; None when the driver
\* is skipped (no laps, no position data).
load_race_telemetry(laps, pos) ==
    IF laps = <<>> \/ pos = <<>> THEN None
    ELSE LET pos_data == sort_values(pos)
             n == Len(pos_data)
             t0 == pos_data[1].SessionTime
         IN IF \E i \in 0..(n - 1) : PitStatusAt(laps, pos_data, i) = None
            THEN Raised("IndexError")
            ELSE Some([times |-> [k \in 1..n |-> pos_data[k].SessionTime - t0],
                       tyres |-> [k \in 1..n |-> TyreAt(laps, pos_data[k].SessionTime)],
                       lap_numbers |-> [k \in 1..n |-> LapNumberAt(laps, pos_data[k].SessionTime)],
                       sectors |-> [k \in 1..n |-> SectorsAt(laps, pos_data[k].SessionTime)],
                       pit_status |-> [k \in 1..n |-> PitStatusAt(laps, pos_data, k - 1).val]])

\* The lap tables: 0..MaxLapRows rows of increasing LapNumber, each starting
\* at one of LapStarts (in any order), with or without a pit flag; a row's
\* compound and sector times tell the rows apart.
LapStarts == {0, 8, 16}
RowCompound(j) == IF j = 1 THEN "SOFT" ELSE IF j = 2 THEN "MEDIUM" ELSE "HARD"
LapTables ==
    UNION {{[j \in 1..n |-> [LapNumber |-> nums[j], LapStartTime |-> starts[j],
                             Compound |-> RowCompound(j),
                             Sectors |-> <<30 + j, 40 + j, 50 + j>>,
                             Pit |-> pits[j]]] :
                nums \in {f \in [1..n -> 1..MaxLapNo] :
                            \A j \in 1..(n - 1) : f[j] < f[j + 1]},
                starts \in [1..n -> LapStarts],
                pits \in [1..n -> BOOLEAN]} :
           n \in 0..MaxLapRows}

\* The position data: a sample a second; the car moves a metre a sample up
\* to sample `stop`, stands until sample `go`, and moves again.
PosBatches ==
    {[k \in 1..NSamples |->
        [SessionTime |-> k - 1,
         X |-> IF k <= stop THEN k ELSE IF k <= go THEN stop ELSE stop + (k - go)]] :
        stop \in 0..NSamples, go \in 0..NSamples}

InitTelemetry ==
    /\ Idle
    /\ pc = "load"
    /\ traces = None
    /\ indices = <<>>
    /\ current_time = 0
    /\ drv_laps \in LapTables
    /\ drv_pos \in PosBatches
    /\ built = None

LoadCall ==
    /\ pc = "load"
    /\ built' = load_race_telemetry(drv_laps, drv_pos)
    /\ pc' = "loaded"
    /\ UNCHANGED <<traces, drv_laps, drv_pos>>
    /\ UNCHANGED <<loaderVars, playVars>>

NextTelemetry == LoadCall

SpecTelemetry == InitTelemetry /\ [][NextTelemetry]_vars

\* ================================================================== claims
\* The playback locals are assigned (the loop has been entered).
InPlayback == pc \in {"events", "done", "error"}

\* A step of Frame.
FrameStep == frame >= 1 /\ frame' = frame + 1

TimesOf(c) == TraceOf(traces.val, c).times

\* The greatest 0-based index whose timestamp is at or before q, 0 if none.
GreatestAtOrBefore(ts, q) ==
    LET at == {i \in 1..Len(ts) : ts[i] <= q}
    IN IF at = {} THEN 0 ELSE SetMax(at) - 1

IndicesResolved ==
    \A c \in Codes(traces.val) : indices[c] = GreatestAtOrBefore(TimesOf(c), current_time)

\* C1: under every sequence of frames, seeks, rate changes and pause toggles,
\* current_time stays within [min_time, max_time], where min_time is the
\* smallest first-sample time and max_time the largest last-sample time of the
\* session's series.
C1_ClockInRange ==
    InPlayback =>
        /\ \A i \in 1..Len(traces.val) :
              /\ min_time <= traces.val[i].times[1]
              /\ max_time >= traces.val[i].times[Len(traces.val[i].times)]
        /\ \E i \in 1..Len(traces.val) : min_time = traces.val[i].times[1]
        /\ \E i \in 1..Len(traces.val) :
              max_time = traces.val[i].times[Len(traces.val[i].times)]
        /\ min_time <= current_time
        /\ current_time <= max_time

\* A frame at a raised speed has run the clock into max_time.
C1_Witness ==
    /\ pc = "events"
    /\ frame = 2
    /\ current_time = max_time
    /\ FracLess(SPEED_INIT, speed)
    /\ paused

\* C2 as claimed: in every playback state, also between a seek and the next
\* re-resolution, each index is the greatest one whose timestamp is at or
\* before current_time (0 if none is).
C2_IndicesAlwaysResolved == InPlayback => IndicesResolved

\* C2 as amended: every frame's re-resolution leaves each index the greatest
\* one whose timestamp is at or before current_time (0 if none is), and that
\* lasts for as long as current_time is not changed.
C2_ResolvedAfterFrame ==
    [][(FrameStep \/ (InPlayback /\ IndicesResolved /\ current_time' = current_time))
         => IndicesResolved']_vars

\* A frame has resolved a car to a sample after its first, short of the end.
C2_Witness ==
    /\ pc = "events"
    /\ frame = 2
    /\ current_time < max_time
    /\ \E c \in Codes(traces.val) : indices[c] > 0
    /\ \E c \in Codes(traces.val) : current_time < TimesOf(c)[1]

\* C3: for a non-empty series and a query time q, resolution returns the
\* index i with t[i] <= q and (i is the last index or t[i+1] > q); 0 when q is
\* before the first sample; the last index when q is after the last sample.
C3_ResolveCorrect ==
    pc = "resolved" =>
        LET ts == TimesOf("VER")
            q == current_time
            i == indices["VER"]
        IN /\ i \in 0..(Len(ts) - 1)
           /\ q < ts[1] => i = 0
           /\ q >= ts[1] => /\ ts[i + 1] <= q
                            /\ (i = Len(ts) - 1 \/ ts[i + 2] > q)
           /\ q > ts[Len(ts)] => i = Len(ts) - 1

\* Samples at 0, 1 and 2 s queried at 1.5 s resolve to index 1.
C3_Witness ==
    /\ pc = "resolved"
    /\ TimesOf("VER") = <<Sec(0), Sec(1), Sec(2)>>
    /\ current_time = Sec(3) \div 2
    /\ indices["VER"] = 1

\* C4: a frame in state PLAYING sets current_time to
\* min(current_time + dt * speed, max_time) and leaves the clock paused whenever
\* that is max_time; a frame in state PAUSED leaves current_time unchanged.
C4_Advance ==
    [][FrameStep =>
         /\ paused => (current_time' = current_time /\ paused')
         /\ ~paused =>
              /\ \E dt \in FrameTimes :
                    current_time' = Min(current_time + Elapsed(dt, speed), max_time)
              /\ current_time' = max_time => paused']_vars

\* A frame at the initial speed has reached max_time and stopped the clock.
C4_Witness ==
    /\ pc = "events"
    /\ frame = 2
    /\ speed = SPEED_INIT
    /\ current_time = max_time
    /\ paused
    /\ max_time - min_time > Sec(FrameSecs * MaxDt)

\* C5: a seek sets current_time to clamp(current_time +/- 5, min_time, max_time)
\* in either state and changes neither paused nor speed; the seek keys are
\* handled whether the clock is playing or paused.
C5_Seek ==
    /\ [][(pc = "events" /\ frame' = frame /\ current_time' # current_time)
            => /\ \/ current_time' = Min(max_time, current_time + Sec(SEEK_STEP))
                  \/ current_time' = Max(min_time, current_time - Sec(SEEK_STEP))
               /\ paused' = paused
               /\ speed' = speed]_vars
    /\ [](pc = "events" => (ENABLED KeyRight /\ ENABLED KeyLeft))

\* A forward seek has landed on max_time with the clock still playing.
C5_Witness ==
    /\ pc = "events"
    /\ frame = 1
    /\ current_time = max_time
    /\ max_time - min_time > Sec(SEEK_STEP)
    /\ ~paused

\* C6: after any sequence of rate changes the speed is positive and within
\* [0.1, 8.0], and a rate change alters neither current_time nor paused.
C6_RateInRange ==
    /\ [](/\ speed[1] > 0
          /\ speed[2] > 0
          /\ speed[2] <= 10 * speed[1]
          /\ speed[1] <= 8 * speed[2])
    /\ [][speed' # speed => (current_time' = current_time /\ paused' = paused)]_vars

\* The speed has been raised to the upper limit in the middle of a session.
C6_Witness ==
    /\ pc = "events"
    /\ speed = SPEED_MAX
    /\ ~paused
    /\ current_time > min_time
    /\ current_time < max_time

\* What the session holds for the car ranked at position i: the sample at its
\* resolved index, and its place in the session map.
RankedTrace(i) == TraceOf(traces.val, ranking[i].code)
RankedDistance(i) == RankedTrace(i).distances[indices[ranking[i].code] + 1]
RankedLap(i) == RankedTrace(i).lap_numbers[indices[ranking[i].code] + 1]
RankedSpeed(i) == RankedTrace(i).speeds[indices[ranking[i].code] + 1]
InsertedAt(i) == CHOOSE k \in 1..Len(traces.val) : traces.val[k].code = ranking[i].code

\* Every car of the session is listed once.
RankingComplete ==
    /\ Len(ranking) = Len(traces.val)
    /\ \A k \in 1..Len(traces.val) :
          Cardinality({i \in 1..Len(ranking) : ranking[i].code = traces.val[k].code}) = 1

\* C7 as claimed: the ranking is in descending lexicographic order of
\* (lap_number, cumulative_distance): a later lap ranks ahead of an earlier
\* one whatever the distances.
C7_LapThenDistanceOrder ==
    pc = "ranked" =>
        \A i, j \in 1..Len(ranking) :
            i < j => \/ RankedLap(i) > RankedLap(j)
                     \/ /\ RankedLap(i) = RankedLap(j)
                        /\ RankedDistance(i) >= RankedDistance(j)

\* C7 as amended: the ranking lists every car in descending order of the
\* cumulative distance at its resolved index; the lap number is no part of
\* the order.
C7_DistanceOrder ==
    pc = "ranked" =>
        /\ RankingComplete
        /\ \A i, j \in 1..Len(ranking) :
              i < j => RankedDistance(i) >= RankedDistance(j)

\* A car on an earlier lap is ranked ahead of a car on a later lap.
C7_Witness ==
    /\ pc = "ranked"
    /\ \E i, j \in 1..Len(ranking) :
          /\ i < j
          /\ RankedLap(i) < RankedLap(j)
          /\ RankedDistance(i) > RankedDistance(j)

\* Ascending entity_id: the alphabetical place of a driver code.
CodePlace(c) ==
    Cardinality({d \in Codes(traces.val) :
        \/ (d = "ALO" /\ c \in {"HAM", "VER"})
        \/ (d = "HAM" /\ c = "VER")})

\* C8 as claimed: cars with equal (lap_number, cumulative_distance) appear in
\* ascending entity_id order, whatever the insertion order of the session map.
C8_TiesByEntityId ==
    pc = "ranked" =>
        \A i, j \in 1..Len(ranking) :
            (/\ i < j
             /\ RankedLap(i) = RankedLap(j)
             /\ RankedDistance(i) = RankedDistance(j))
            => CodePlace(ranking[i].code) < CodePlace(ranking[j].code)

\* C8 as amended: cars with equal cumulative distance appear in the order in
\* which they were inserted into the session map.
C8_TiesByInsertion ==
    pc = "ranked" =>
        \A i, j \in 1..Len(ranking) :
            (i < j /\ RankedDistance(i) = RankedDistance(j))
            => InsertedAt(i) < InsertedAt(j)

\* Two cars tie and the one inserted first, later in the alphabet, leads.
C8_Witness ==
    /\ pc = "ranked"
    /\ \E i, j \in 1..Len(ranking) :
          /\ i < j
          /\ RankedLap(i) = RankedLap(j)
          /\ RankedDistance(i) = RankedDistance(j)
          /\ CodePlace(ranking[i].code) > CodePlace(ranking[j].code)

\* C9: the leader has no gap; every other entry's gap is
\* (distance(ahead) - distance(self)) / max(speed(ahead) / 3.6, 10), with the
\* speed of the entry ranked immediately before it, to the two decimals shown
\* (gap_to_ahead is in hundredths of a second: |gap/100 - quotient| <= 0.005).
C9_GapToAhead ==
    pc = "ranked" =>
        \A i \in 1..Len(ranking) :
            IF i = 1 THEN ranking[i].gap_to_ahead = ""
            ELSE LET dgap == RankedDistance(i - 1) - RankedDistance(i)
                     v == RankedSpeed(i - 1)
                     \* speed_mps = n / d
                     n == IF 10 * v > 36 * FLOOR_SPEED THEN 10 * v ELSE 36 * FLOOR_SPEED
                     d == 36
                     err == ranking[i].gap_to_ahead * n - 100 * dgap * d
                 IN /\ 2 * err <= n
                    /\ 2 * err >= -n

\* 20 m behind a leader at 200 km/h, itself at 30 km/h: a gap of 0.36 s.
C9_Witness ==
    /\ pc = "ranked"
    /\ Len(ranking) >= 2
    /\ RankedDistance(1) - RankedDistance(2) = 20
    /\ RankedSpeed(1) = 200
    /\ RankedSpeed(2) = 30
    /\ ranking[2].gap_to_ahead = 36

\* C10: the foreground holds a set of series only once the loader thread has
\* ended, and it is then the whole of what the loader built from every
\* driver's result, or nothing; a foreground that quit during the load holds
\* nothing.
C10_Handoff ==
    /\ pc \in {"wait", "returned"} => traces = None
    /\ pc \in {"events", "done", "error", "failed"} =>
          /\ lpc = "done"
          /\ \/ traces = None
             \/ /\ lnext > Len(Drivers)
                /\ traces = Some(ltraces)
                /\ data.colors = RankCodes(ltraces)
    /\ InPlayback => traces # None /\ traces.val # <<>>

\* Playback runs on the series of all three drivers.
C10_Witness ==
    /\ pc = "events"
    /\ Len(traces.val) = Len(Drivers)
    /\ lpc = "done"

\* The codes of the loader's results that hold at least one sample.
BuiltWithSamples == {ltraces[i].code : i \in {k \in 1..Len(ltraces) : ltraces[k].times # <<>>}}

RowsWithXY == Concat(merged_all(drv_laps))
StampsWithXY == {RowsWithXY[i].SessionTime : i \in 1..Len(RowsWithXY)}

AssignedLap(t) ==
    LET q == {j \in 1..Len(drv_laps) : drv_laps[j].LapStartTime <= t}
    IN IF q = {} THEN 0 ELSE CHOOSE j \in q : \A m \in q : m <= j

\* C14: every sample's lap number, tyre compound and sector times are those of
\* one lap, the last in lap order that starts at or before the sample's
\* timestamp, whatever the order of the lap start times; a sample before every
\* lap start has lap 0, the unknown tyre ("UNK") and sectors (0, 0, 0).
C14_OneLapPerSample ==
    (pc = "loaded" /\ built.none = FALSE) =>
        \A k \in 1..Len(drv_pos) :
            LET j == AssignedLap(drv_pos[k].SessionTime)
            IN IF j = 0
               THEN /\ built.val.lap_numbers[k] = 0
                    /\ built.val.tyres[k] = "UNK"
                    /\ built.val.sectors[k] = <<0, 0, 0>>
               ELSE /\ built.val.lap_numbers[k] = drv_laps[j].LapNumber
                    /\ built.val.tyres[k] = drv_laps[j].Compound
                    /\ built.val.sectors[k] = drv_laps[j].Sectors

\* The sample of 0-based index i comes after OUT_MIN_INDEX and the (up to
\* OUT_WINDOW) samples before it differ in X by less than OUT_SPREAD.
Stationary(i) ==
    /\ i > OUT_MIN_INDEX
    /\ \A a, b \in {k \in 1..i : k > i - OUT_WINDOW} :
          drv_pos[a].X - drv_pos[b].X < OUT_SPREAD

\* C15: a driver with laps and position data gets a status for every sample:
\* OUT for every stationary sample, with or without an assigned lap and
\* whatever the lap's pit flags; for every other sample PIT exactly when its
\* assigned lap has a pit-in or pit-out time.
C15_OutOverridesPit ==
    (pc = "loaded" /\ drv_laps # <<>>) =>
        /\ built.none = FALSE
        /\ \A i \in 0..(Len(drv_pos) - 1) :
              LET j == AssignedLap(drv_pos[i + 1].SessionTime)
              IN IF Stationary(i) THEN built.val.pit_status[i + 1] = "OUT"
                 ELSE (built.val.pit_status[i + 1] = "PIT") <=> (j # 0 /\ drv_laps[j].Pit)

\* The lap numbers of the samples of the session's series, and those of the
\* session's lap table.
SeriesLapNumbers ==
    UNION {{traces.val[i].lap_numbers[k] : k \in 1..Len(traces.val[i].lap_numbers)} :
           i \in 1..Len(traces.val)}
TableLapNumbers ==
    UNION {{SessionLaps(Drivers[i])[k].LapNumber : k \in 1..Len(SessionLaps(Drivers[i]))} :
           i \in 1..Len(Drivers)}

\* C16 as claimed: the total-lap count is the greatest lap number of the
\* samples of the series that are in the session.
C16_TotalLapsOfSessionSeries ==
    InPlayback =>
        /\ data.total_laps \in SeriesLapNumbers
        /\ \A n \in SeriesLapNumbers : n <= data.total_laps

\* C16 as amended: the total-lap count is the greatest LapNumber of the
\* session's lap table, over every lap of every driver, also of drivers that
\* were dropped and of laps without telemetry; no sample of the session has a
\* greater lap number.
C16_TotalLapsOfLapTable ==
    InPlayback =>
        /\ data.total_laps \in TableLapNumbers
        /\ \A n \in TableLapNumbers : n <= data.total_laps
        /\ \A n \in SeriesLapNumbers : n <= data.total_laps

\* A frame is drawn for a session of HAM alone, whose last lap is lap 2, with
\* the total of the three-lap table.
C16_Witness ==
    /\ pc = "events"
    /\ frame = 2
    /\ Codes(traces.val) = {"HAM"}
    /\ SeriesLapNumbers = {1, 2}
    /\ data.total_laps > 2

\* The ranking of the resolved indices, and the ranking for the clock time.
IndexOrder == RankCodes(compute_ranking_data(traces.val, indices))
ClockOrder == RankCodes(compute_ranking_data(traces.val, ResolveAll(traces.val, current_time)))

\* The entry after, and before, code c in the order arr, wrapping around.
PlaceIn(arr, c) == CHOOSE i \in 1..Len(arr) : arr[i] = c
After(arr, c) == IF PlaceIn(arr, c) = Len(arr) THEN arr[1] ELSE arr[PlaceIn(arr, c) + 1]
Before(arr, c) == IF PlaceIn(arr, c) = 1 THEN arr[Len(arr)] ELSE arr[PlaceIn(arr, c) - 1]

\* C17 as claimed: select-next and select-previous step through the ranking
\* for the current clock time.
C17_SelectInClockRanking ==
    [][/\ KeyRightBracket => selected' = After(ClockOrder, selected)
       /\ KeyLeftBracket => selected' = Before(ClockOrder, selected)]_vars

\* C17 as amended: select-next moves the selection to the entity after the
\* selected one, select-previous to the one before it, wrapping around, in the
\* ranking of the currently resolved indices; neither changes current_time,
\* speed, paused or the indices, and select-previous after select-next
\* restores the selection.
C17_SelectInIndexRanking ==
    /\ [](pc = "events" =>
            /\ Reselect(selected, 1) = After(IndexOrder, selected)
            /\ Reselect(selected, -1) = Before(IndexOrder, selected)
            /\ Reselect(Reselect(selected, 1), -1) = selected)
    /\ [][(pc = "events" /\ frame' = frame /\ pc' = pc) =>
            /\ KeyRightBracket => selected' = After(IndexOrder, selected)
            /\ KeyLeftBracket => selected' = Before(IndexOrder, selected)
            /\ selected' # selected =>
                 UNCHANGED <<current_time, speed, paused, indices, traces>>]_vars

\* After a frame and a seek the two rankings differ, and the selection has
\* been moved to the last place of the ranking of the indices.
C17_Witness ==
    /\ pc = "events"
    /\ frame = 2
    /\ Len(traces.val) = Len(Drivers)
    /\ IndexOrder # ClockOrder
    /\ selected # traces.val[1].code
    /\ selected = IndexOrder[Len(IndexOrder)]

\* The ranking computed from the indices as they are.
CurrentRanking == compute_ranking_data(traces.val, indices)

\* C18: in every playback state the selected entity is a key of the session
\* map, the current ranking has positions 1..n and lists every session
\* entity, the selected one among them, exactly once, and the selected
\* entity's index addresses one of its samples: the frame's reads of
\* traces[selected] and of its current sample do not fail.
C18_SelectedIsRanked ==
    InPlayback =>
        /\ pc # "error"
        /\ selected \in Codes(traces.val)
        /\ Len(CurrentRanking) = Len(traces.val)
        /\ \A i \in 1..Len(CurrentRanking) : CurrentRanking[i].position = i
        /\ \A c \in Codes(traces.val) :
              Cardinality({i \in 1..Len(CurrentRanking) : CurrentRanking[i].code = c}) = 1
        /\ indices[selected] \in 0..(Len(TimesOf(selected)) - 1)
        /\ indices[selected] < Len(TraceOf(traces.val, selected).lap_numbers)

\* The selection has moved off the first entity, which has reached its last
\* sample.
C18_Witness ==
    /\ pc = "events"
    /\ frame = 2
    /\ Len(traces.val) = Len(Drivers)
    /\ selected # traces.val[1].code
    /\ indices[traces.val[1].code] = Len(traces.val[1].times) - 1

C20_ReachesEnd == (pc = "events" /\ ~paused) ~> (current_time = max_time /\ paused)

\* The clock has stopped at max_time at the lowest speed.
C20_Witness ==
    /\ pc = "events"
    /\ frame = 1
    /\ lnext = Len(Drivers) + 1
    /\ speed = SPEED_MIN
    /\ current_time = max_time
    /\ paused

====
